---- MODULE Spec2Model ----
(***************************************************************************)
(* Model of the quick-sync layer of ai-coders-context:                     *)
(*   - QuickSyncService.run and exportCommandsToAntigravity                *)
(*   - the Antigravity workflow format (filename and content transformers) *)
(*   - generateCommands (seeding of .context/commands)                     *)
(* Text is modelled as a sequence of one-character strings, so that the    *)
(* regular expressions of the source are computed character by character.  *)
(***************************************************************************)
EXTENDS Integers, Sequences, FiniteSets, TLC

(***************************************************************************)
(* Bounds of the model.                                                    *)
(***************************************************************************)
\* Largest number of .md files in .context/commands.
MaxFiles == 3
\* Largest number of lines of an input handed to the content transformer.
MaxLines == 4
\* Largest number of calls of generateCommands on one directory.
MaxCalls == 3

(***************************************************************************)
(* Characters and strings.                                                 *)
(***************************************************************************)
NL == "\n"
SP == " "

IsWs(c) == c \in {" ", "\n", "\t"}

IsDigit(c) == c \in {"0", "1", "2", "3", "4", "5", "6", "7", "8", "9"}

SetMin(S) == CHOOSE x \in S : \A y \in S : x <= y

SetMax(S) == CHOOSE x \in S : \A y \in S : x >= y

\* String.prototype.trim
Trim(s) ==
  LET idx == {i \in 1..Len(s) : ~IsWs(s[i])}
  IN  IF idx = {} THEN <<>> ELSE SubSeq(s, SetMin(idx), SetMax(idx))

\* p occurs in s at index i
StartsAt(s, i, p) ==
  /\ i >= 1
  /\ i + Len(p) - 1 <= Len(s)
  /\ \A k \in 1..Len(p) : s[i + k - 1] = p[k]

\* ^ of a regular expression with the m flag
LineStart(s, i) == i = 1 \/ (i > 1 /\ i <= Len(s) + 1 /\ s[i - 1] = NL)

\* index of the first non-whitespace character at or after i, Len(s)+1 if none
SkipWs(s, i) ==
  LET rest == {k \in i..Len(s) : ~IsWs(s[k])}
  IN  IF rest = {} THEN Len(s) + 1 ELSE SetMin(rest)

\* index of the last character of the line that holds index i
LineEnd(s, i) ==
  LET nls == {k \in i..Len(s) : s[k] = NL}
  IN  IF nls = {} THEN Len(s) ELSE SetMin(nls) - 1

\* the concatenation of the pieces parts[lo], ..., parts[hi]
RECURSIVE Flatten(_, _, _)
Flatten(parts, lo, hi) ==
  IF lo > hi THEN <<>>
  ELSE IF lo = hi THEN parts[lo]
       ELSE LET mid == (lo + hi) \div 2
            IN  Flatten(parts, lo, mid) \o Flatten(parts, mid + 1, hi)

\* s.split(/\n/)[0]
FirstLine(s) == IF s = <<>> THEN <<>> ELSE SubSeq(s, 1, LineEnd(s, 1))

\* s.replace(/\s+/g, ' ')
CollapseWs(s) ==
  Flatten([i \in 1..Len(s) |->
             IF ~IsWs(s[i]) THEN <<s[i]>>
             ELSE IF i > 1 /\ IsWs(s[i - 1]) THEN <<>> ELSE <<SP>>],
          1, Len(s))

\* s.split(/\n/).join('\n   ')
IndentLines(s) ==
  Flatten([i \in 1..Len(s) |-> IF s[i] = NL THEN <<NL, SP, SP, SP>> ELSE <<s[i]>>],
          1, Len(s))

Dashes == <<"-", "-", "-">>
Ellipsis == <<".", ".", ".">>
WorkflowWord == <<"W", "o", "r", "k", "f", "l", "o", "w">>
DescriptionKey == <<"d", "e", "s", "c", "r", "i", "p", "t", "i", "o", "n", ":", " ">>
StepPrefix == <<"1", ".", " ">>
MdExt == <<".", "m", "d">>

(***************************************************************************)
(* The Antigravity workflow format.                                        *)
(***************************************************************************)
DESCRIPTION_MAX_LENGTH == 250

\* a truncation that keeps MAX characters before the ellipsis
TruncateKeepingMax(s) ==
  IF Len(s) <= DESCRIPTION_MAX_LENGTH THEN s
  ELSE SubSeq(s, 1, DESCRIPTION_MAX_LENGTH) \o Ellipsis

\* cleaned.length <= MAX ? cleaned : cleaned.slice(0, MAX - 3) + '...'
Truncate(s) ==
  IF Len(s) <= DESCRIPTION_MAX_LENGTH THEN s
  ELSE SubSeq(s, 1, DESCRIPTION_MAX_LENGTH - 3) \o Ellipsis

\* the indices where /^#\s+(.+?)(?:\n|$)/m matches in a trimmed string
HeadingStarts(t) ==
  {i \in 1..Len(t) : /\ LineStart(t, i)
                     /\ t[i] = "#"
                     /\ i + 1 <= Len(t)
                     /\ IsWs(t[i + 1])
                     /\ SkipWs(t, i + 1) <= Len(t)}

\* group 1 of the first match of the heading expression
HeadingText(t) ==
  LET i == SetMin(HeadingStarts(t))
      b == SkipWs(t, i + 1)
  IN  SubSeq(t, b, LineEnd(t, b))

\* cleaned of deriveDescription: the heading text or the first line, with
\* whitespace collapsed
CleanedFirstLine(content) ==
  LET trimmed == Trim(content)
      first == Trim(FirstLine(trimmed))
      firstLine == IF HeadingStarts(trimmed) # {} THEN Trim(HeadingText(trimmed))
                   ELSE IF first # <<>> THEN first ELSE WorkflowWord
  IN  Trim(CollapseWs(firstLine))

deriveDescription(content) == Truncate(CleanedFirstLine(content))

\* /^\d+\.\s+/m.test(t)
HasNumberedStep(t) ==
  \E i \in 1..Len(t) :
    /\ LineStart(t, i)
    /\ \E j \in (i + 1)..Len(t) :
         /\ \A k \in i..(j - 1) : IsDigit(t[k])
         /\ t[j] = "."
         /\ j + 1 <= Len(t)
         /\ IsWs(t[j + 1])

ensureSteps(body) ==
  LET trimmed == Trim(body)
  IN  IF HasNumberedStep(trimmed) THEN trimmed
      ELSE StepPrefix \o IndentLines(trimmed)

\* the indices where /^---[\s\S]*?---\s*/m matches
FrontmatterStarts(s) ==
  {i \in 1..Len(s) : /\ LineStart(s, i)
                     /\ StartsAt(s, i, Dashes)
                     /\ \E j \in (i + 3)..Len(s) : StartsAt(s, j, Dashes)}

\* content.replace(/^---[\s\S]*?---\s*/m, '')
StripFrontmatter(s) ==
  IF FrontmatterStarts(s) = {} THEN s
  ELSE LET i == SetMin(FrontmatterStarts(s))
           j == SetMin({k \in (i + 3)..Len(s) : StartsAt(s, k, Dashes)})
           e == SkipWs(s, j + 3)
       IN  SubSeq(s, 1, i - 1) \o SubSeq(s, e, Len(s))

\* the body of toAntigravityWorkflowContent, before ensureSteps
WorkflowBody(content) == Trim(StripFrontmatter(content))

\* the description line of toAntigravityWorkflowContent (no options given)
WorkflowDescription(content) ==
  LET description == deriveDescription(content)
      finalDescription == Truncate(description)
  IN  [i \in 1..Len(finalDescription) |->
         IF finalDescription[i] = NL THEN SP ELSE finalDescription[i]]

toAntigravityWorkflowContent(content) ==
  LET frontmatter == Dashes \o <<NL>> \o DescriptionKey
                       \o WorkflowDescription(content) \o <<NL>> \o Dashes \o <<NL>>
  IN  frontmatter \o <<NL>> \o ensureSteps(WorkflowBody(content)) \o <<NL>>

\* String.prototype.toLowerCase on the letters the model uses
Lower(c) ==
  CASE c = "A" -> "a"
    [] c = "B" -> "b"
    [] c = "D" -> "d"
    [] c = "M" -> "m"
    [] OTHER -> c

\* f.endsWith('.md')
EndsWithMd(f) == Len(f) >= 3 /\ SubSeq(f, Len(f) - 2, Len(f)) = MdExt

\* filename.replace(/\.md$/i, '')
StripMdExt(f) ==
  IF /\ Len(f) >= 3
     /\ f[Len(f) - 2] = "."
     /\ Lower(f[Len(f) - 1]) = "m"
     /\ Lower(f[Len(f)]) = "d"
  THEN SubSeq(f, 1, Len(f) - 3)
  ELSE f

\* a conversion that replaces the first '-' only (replace without the g flag)
FilenameFirstDashOnly(filename) ==
  LET base == StripMdExt(filename)
      dashes == {i \in 1..Len(base) : base[i] = "-"}
      withUnderscores == [i \in 1..Len(base) |->
                            IF dashes # {} /\ i = SetMin(dashes) THEN "_"
                            ELSE Lower(base[i])]
  IN  withUnderscores \o MdExt

toAntigravityFilename(filename) ==
  LET base == StripMdExt(filename)
      withUnderscores == [i \in 1..Len(base) |->
                            IF base[i] = "-" THEN "_" ELSE Lower(base[i])]
  IN  withUnderscores \o MdExt

(***************************************************************************)
(* Options, directories and the environment of QuickSyncService.run.       *)
(***************************************************************************)
\* an optional string[] option: absent (undefined) or an array
Undefined == [defined |-> FALSE, list |-> <<>>]

Listed(l) == [defined |-> TRUE, list |-> l]

\* Array.isArray(t) && t.length === 0
IsEmptyArray(t) == t.defined /\ Len(t.list) = 0

\* t && t.length > 0
HasCustomTargets(t) == t.defined /\ Len(t.list) > 0

\* the keys of getCommandsSyncPresets(), in Object.keys order
CommandsPresetKeys == <<"cursor", "antigravity">>

IsRegistered(id) == \E i \in 1..Len(CommandsPresetKeys) : CommandsPresetKeys[i] = id

Range(s) == {s[i] : i \in 1..Len(s)}

DigitChar(i) == <<"0", "1", "2", "3", "4", "5", "6", "7", "8", "9">>[i + 1]

\* the i-th command file of the source directory (kebab-case, .md)
CommandName(i) == <<"a", "-", DigitChar(i), ".", "m", "d">>

\* a file of the source directory that is not a command
OtherName == <<"n", ".", "t", "x", "t">>

\* the contents the source files are drawn from
SourceContents ==
  << <<"#", " ", "T", NL, "x">>,
     <<"x", " ", "y">>,
     <<"1", ".", " ", "x">>,
     <<"-", "-", "-", NL, "k", NL, "-", "-", "-", NL, "x">> >>

SourceContent(i) == SourceContents[((i - 1) % Len(SourceContents)) + 1]

StaleContent == <<"o", "l", "d">>

EmptyDir == [exists |-> FALSE, names |-> <<>>, data |-> <<>>]

\* a directory: the listing (readdir order) and the content of each entry
DirWith(names, data) == [exists |-> TRUE, names |-> names, data |-> data]

IndexOf(names, f) ==
  IF \E i \in 1..Len(names) : names[i] = f
  THEN SetMin({i \in 1..Len(names) : names[i] = f})
  ELSE 0

HasFile(dir, f) == dir.exists /\ IndexOf(dir.names, f) > 0

FileContent(dir, f) == dir.data[IndexOf(dir.names, f)]

\* fs.writeFile(path.join(dir, f), content): creates or overwrites
WriteFile(dir, f, content) ==
  IF IndexOf(dir.names, f) > 0
  THEN [dir EXCEPT !.data[IndexOf(dir.names, f)] = content]
  ELSE [dir EXCEPT !.names = Append(@, f), !.data = Append(@, content)]

\* fs.ensureDir(dir)
EnsureDir(dir) == [dir EXCEPT !.exists = TRUE]

\* the source directory with k command files and one other file
SourceDir(k) ==
  DirWith([i \in 1..(k + 1) |-> IF i <= k THEN CommandName(i) ELSE OtherName],
          [i \in 1..(k + 1) |-> IF i <= k THEN SourceContent(i) ELSE StaleContent])

\* QuickSyncService.run: the pass that runs next, the options, the result being
\* built, the directories, the listing and loop index of the antigravity export,
\* and what the State Detector returned
VARIABLES pc, opts, result, source, dest, commandFiles, idx, detected
\* history of a run: try blocks entered per pass, what each pass handed to its
\* service, the exceptions thrown, the file whose write threw, the directories
\* at the start of the run
VARIABLES attempts, handed, thrown, failedWrite, source0, dest0
\* generateCommands: its call state and the commands directory
VARIABLES gen
\* the content transformer applied to an input, and to its own output
VARIABLES fmt
\* toAntigravityFilename applied to a name, and to its own output
VARIABLES fname
\* InitService.run: its position, its counts and what it did to the disk
VARIABLES scaffold

runVars == <<pc, opts, result, source, dest, commandFiles, idx, detected,
             attempts, handed, thrown, failedWrite, source0, dest0>>

vars == <<runVars, gen, fmt, fname, scaffold>>

\* the number of .md files in .context/agents, and of skills exported
NumAgents == 2
NumSkills == 1

Passes == {"agents", "skills", "commands", "rules", "status"}

AgentLists == {Undefined, Listed(<<>>), Listed(<<"claude">>)}
SkillLists == {Undefined, Listed(<<>>), Listed(<<"gemini">>)}
DocLists == {Undefined, Listed(<<>>)}
CommandLists ==
  {Undefined, Listed(<<>>), Listed(<<"cursor">>), Listed(<<"antigravity">>),
   Listed(<<"cursor", "antigravity">>), Listed(<<"antigravity", "bogus">>)}

\* every option record, run over one source file and empty destinations
OrchestrationOptions ==
  [skipAgents : BOOLEAN, skipSkills : BOOLEAN, skipCommands : BOOLEAN,
   skipDocs : BOOLEAN, force : BOOLEAN, dryRun : BOOLEAN,
   agentTargets : AgentLists, skillTargets : SkillLists,
   commandTargets : CommandLists,
   docTargets : DocLists]

\* the option records run over every source and destination directory
CommandsOptions ==
  [skipAgents : BOOLEAN, skipSkills : BOOLEAN, skipCommands : {FALSE},
   skipDocs : BOOLEAN, force : BOOLEAN, dryRun : BOOLEAN,
   agentTargets : {Undefined}, skillTargets : {Undefined},
   commandTargets : CommandLists, docTargets : {Undefined}]

Sources == {EmptyDir} \cup {SourceDir(k) : k \in 0..MaxFiles}

NoDests == [cursor |-> EmptyDir, antigravity |-> EmptyDir]

StaleDests ==
  [cursor |-> DirWith(<<CommandName(1)>>, <<StaleContent>>),
   antigravity |-> DirWith(<<toAntigravityFilename(CommandName(1))>>, <<StaleContent>>)]

Dests == {NoDests, StaleDests}

\* what StateDetector.detect() returns
NotDetected == [state |-> "none", hasDays |-> FALSE, daysBehind |-> 0]

Detections ==
  {[state |-> "fresh", hasDays |-> FALSE, daysBehind |-> 0],
   [state |-> "unknown", hasDays |-> FALSE, daysBehind |-> 0],
   [state |-> "outdated", hasDays |-> FALSE, daysBehind |-> 0],
   [state |-> "outdated", hasDays |-> TRUE, daysBehind |-> 0],
   [state |-> "outdated", hasDays |-> TRUE, daysBehind |-> 9]}

NotRun == [state |-> "skipped", preset |-> "none", targets |-> <<>>, antigravity |-> FALSE]

NoSource == [NotRun EXCEPT !.state = "nosource"]

\* what run hands to SyncService.run, SkillExportService.run, ExportRulesService.run
Call(targets) ==
  [state |-> "called",
   preset |-> IF HasCustomTargets(targets) THEN "none" ELSE "all",
   targets |-> IF HasCustomTargets(targets) THEN targets.list ELSE <<>>,
   antigravity |-> FALSE]

\* generateCommands and the transformer are not running
GenOff == [pc |-> "off"]

FmtOff == [pc |-> "off"]

\* toAntigravityFilename is not being applied
NameOff == [pc |-> "off"]

\* InitService.run is not running
ScaffoldOff == [pc |-> "off"]

(***************************************************************************)
(* QuickSyncService.run: one action per pass; the antigravity export takes *)
(* one step per file.  pc is the pass that runs next.                      *)
(***************************************************************************)
Init ==
  /\ pc = "agents"
  /\ \/ /\ opts \in OrchestrationOptions
        /\ source = SourceDir(1)
        /\ dest = NoDests
     \/ /\ opts \in CommandsOptions
        /\ source \in Sources
        /\ dest \in Dests
  /\ result = [agentsSynced |-> 0, skillsExported |-> 0, commandsSynced |-> 0,
               docsUpdated |-> FALSE, errors |-> <<>>]
  /\ commandFiles = <<>>
  /\ idx = 0
  /\ detected = NotDetected
  /\ attempts = [p \in Passes |-> 0]
  /\ handed = [p \in Passes |-> NotRun]
  /\ thrown = <<>>
  /\ failedWrite = 0
  /\ source0 = source
  /\ dest0 = dest
  /\ gen = GenOff
  /\ fmt = FmtOff
  /\ fname = NameOff
  /\ scaffold = ScaffoldOff

\* a pass that also treats an absent target list as "skip"
PassEnabledOnlyWithList(skip, targets) == ~skip /\ HasCustomTargets(targets)

\* if (!options.skipX) { shouldSkipX = Array.isArray(t) && t.length === 0; if (!shouldSkipX)
PassEnabled(skip, targets) == ~skip /\ ~IsEmptyArray(targets)

\* a catch block that swallows the exception without recording it
CatchSilently(r, msg) == r

\* catch (error) { result.errors.push(error instanceof Error ? error.message : String(error)) }
Catch(r, msg) == [r EXCEPT !.errors = Append(@, msg)]

\* the history of a pass whose try block was entered
Entered(p) == attempts' = [attempts EXCEPT ![p] = @ + 1]

Threw(p, msg) == thrown' = Append(thrown, [pass |-> p, msg |-> msg])

\* Step 1: sync agents
AgentsPass ==
  /\ pc = "agents"
  /\ UNCHANGED <<gen, fmt, fname, scaffold>>
  /\ pc' = "skills"
  /\ UNCHANGED <<opts, source, dest, commandFiles, idx, detected, failedWrite,
                 source0, dest0>>
  /\ IF ~PassEnabled(opts.skipAgents, opts.agentTargets)
     THEN UNCHANGED <<result, attempts, handed, thrown>>
     ELSE /\ Entered("agents")
          /\ \E outcome \in {"nosource", "ok", "throw"} :
               CASE outcome = "nosource" ->
                      /\ handed' = [handed EXCEPT !.agents = NoSource]
                      /\ UNCHANGED <<result, thrown>>
                 [] outcome = "ok" ->
                      /\ handed' = [handed EXCEPT !.agents = Call(opts.agentTargets)]
                      /\ result' = [result EXCEPT !.agentsSynced = NumAgents]
                      /\ UNCHANGED thrown
                 [] outcome = "throw" ->
                      /\ handed' = [handed EXCEPT !.agents = Call(opts.agentTargets)]
                      /\ result' = Catch(result, "agents failed")
                      /\ Threw("agents", "agents failed")

\* Step 2: export skills
SkillsPass ==
  /\ pc = "skills"
  /\ UNCHANGED <<gen, fmt, fname, scaffold>>
  /\ pc' = "commands"
  /\ UNCHANGED <<opts, source, dest, commandFiles, idx, detected, failedWrite,
                 source0, dest0>>
  /\ IF ~PassEnabled(opts.skipSkills, opts.skillTargets)
     THEN UNCHANGED <<result, attempts, handed, thrown>>
     ELSE /\ Entered("skills")
          /\ \E outcome \in {"nosource", "ok", "throw"} :
               CASE outcome = "nosource" ->
                      /\ handed' = [handed EXCEPT !.skills = NoSource]
                      /\ UNCHANGED <<result, thrown>>
                 [] outcome = "ok" ->
                      /\ handed' = [handed EXCEPT !.skills = Call(opts.skillTargets)]
                      /\ result' = [result EXCEPT !.skillsExported = NumSkills]
                      /\ UNCHANGED thrown
                 [] outcome = "throw" ->
                      /\ handed' = [handed EXCEPT !.skills = Call(opts.skillTargets)]
                      /\ result' = Catch(result, "skills failed")
                      /\ Threw("skills", "skills failed")

\* (await fs.readdir(commandsPath)).filter((f) => f.endsWith('.md'))
ListCommands(dir) == SelectSeq(dir.names, EndsWithMd)

\* hasCustomTargets ? options.commandTargets : Object.keys(commandsPresets)
TargetIds(targets) == IF HasCustomTargets(targets) THEN targets.list ELSE CommandsPresetKeys

\* antigravityPreset && targetIds.includes('antigravity')
AntigravitySelected(targets) ==
  IsRegistered("antigravity") /\ "antigravity" \in Range(TargetIds(targets))

\* targetIds.filter(id => id !== 'antigravity').map(id => presets[id]).filter(Boolean)
OtherTargets(targets) ==
  SelectSeq(SelectSeq(TargetIds(targets), LAMBDA id : id # "antigravity"), IsRegistered)

\* SyncService.run({source, target, force, dryRun}) on one mirror destination:
\* every .md file of the source is copied under its own name
RECURSIVE CopyAll(_, _, _)
CopyAll(dir, src, files) ==
  IF files = <<>> THEN dir
  ELSE CopyAll(WriteFile(dir, Head(files), FileContent(src, Head(files))), src, Tail(files))

MirrorSync(dir, src, files, dryRun) ==
  IF dryRun THEN dir ELSE CopyAll(EnsureDir(dir), src, files)

RECURSIVE MirrorAll(_, _, _, _, _)
MirrorAll(d, keys, src, files, dryRun) ==
  IF keys = <<>> THEN d
  ELSE MirrorAll([d EXCEPT ![Head(keys)] = MirrorSync(@, src, files, dryRun)],
                 Tail(keys), src, files, dryRun)

\* an export without the dryRun return
ExportStartsInDryRun(targets, files, dryRun) ==
  AntigravitySelected(targets) /\ Len(files) > 0

\* an export that keeps an existing destination file unless force is set
ExportWriteUnlessExists(dir, filename, content, force) ==
  IF HasFile(dir, toAntigravityFilename(filename)) /\ ~force THEN dir
  ELSE WriteFile(dir, toAntigravityFilename(filename), toAntigravityWorkflowContent(content))

\* an export that writes the workflow and, at once, a copy under the source name
ExportWriteWithCopy(dir, filename, content, force) ==
  WriteFile(WriteFile(dir, toAntigravityFilename(filename),
                      toAntigravityWorkflowContent(content)),
            filename, content)

\* exportCommandsToAntigravity is called and passes its dryRun return
ExportStarts(targets, files, dryRun) ==
  AntigravitySelected(targets) /\ Len(files) > 0 /\ ~dryRun

\* one turn of the loop of exportCommandsToAntigravity: transform and write
ExportWrite(dir, filename, content, force) ==
  WriteFile(dir, toAntigravityFilename(filename), toAntigravityWorkflowContent(content))

\* one turn of the loop that writes its workflow next to the source file
ExportTurnIntoSource(disk, filename, force) ==
  [disk EXCEPT !.source = ExportWrite(@, filename, FileContent(disk.source, filename),
                                      force)]

\* the disk after one turn of the loop: srcPath is read under sourceDir,
\* outPath is written under targetDir
ExportTurn(disk, filename, force) ==
  [disk EXCEPT !.dest.antigravity =
                 ExportWrite(@, filename, FileContent(disk.source, filename), force)]

\* Step 3: sync commands, up to the call of exportCommandsToAntigravity
CommandsPass ==
  /\ pc = "commands"
  /\ UNCHANGED <<gen, fmt, fname, scaffold>>
  /\ UNCHANGED <<opts, source, detected, failedWrite, source0, dest0>>
  /\ IF ~PassEnabled(opts.skipCommands, opts.commandTargets)
     THEN /\ pc' = "rules"
          /\ UNCHANGED <<result, dest, commandFiles, idx, attempts, handed, thrown>>
     ELSE /\ Entered("commands")
          /\ IF ~source.exists
             THEN /\ pc' = "rules"
                  /\ handed' = [handed EXCEPT !.commands = NoSource]
                  /\ UNCHANGED <<result, dest, commandFiles, idx, thrown>>
             ELSE LET others == OtherTargets(opts.commandTargets)
                      files == ListCommands(source)
                      synced == MirrorAll(dest, others, source, files, opts.dryRun)
                  IN  /\ handed' = [handed EXCEPT !.commands =
                                      [Call(opts.commandTargets) EXCEPT
                                         !.targets = others,
                                         !.antigravity = AntigravitySelected(opts.commandTargets)]]
                      /\ \E fault \in {"none", "readdir", "sync", "ensureDir"} :
                           CASE fault = "readdir" ->
                                  /\ pc' = "rules"
                                  /\ result' = Catch(result, "readdir failed")
                                  /\ Threw("commands", "readdir failed")
                                  /\ UNCHANGED <<dest, commandFiles, idx>>
                             [] fault = "sync" ->
                                  /\ Len(others) > 0
                                  /\ pc' = "rules"
                                  /\ result' = Catch(result, "sync failed")
                                  /\ Threw("commands", "sync failed")
                                  /\ commandFiles' = files
                                  /\ UNCHANGED <<dest, idx>>
                             [] fault = "ensureDir" ->
                                  /\ ExportStarts(opts.commandTargets, files, opts.dryRun)
                                  /\ pc' = "rules"
                                  /\ result' = Catch(result, "ensureDir failed")
                                  /\ Threw("commands", "ensureDir failed")
                                  /\ commandFiles' = files
                                  /\ dest' = synced
                                  /\ UNCHANGED idx
                             [] fault = "none" ->
                                  /\ commandFiles' = files
                                  /\ UNCHANGED thrown
                                  /\ IF ExportStarts(opts.commandTargets, files, opts.dryRun)
                                     THEN /\ pc' = "export"
                                          /\ idx' = 1
                                          /\ dest' = [synced EXCEPT
                                                        !.antigravity = EnsureDir(@)]
                                          /\ UNCHANGED result
                                     ELSE /\ pc' = "rules"
                                          /\ dest' = synced
                                          /\ result' = [result EXCEPT
                                                          !.commandsSynced = Len(files)]
                                          /\ UNCHANGED idx

\* one file of exportCommandsToAntigravity; after the last one run sets the count
ExportFile ==
  /\ pc = "export"
  /\ UNCHANGED <<gen, fmt, fname, scaffold>>
  /\ UNCHANGED <<opts, commandFiles, detected, attempts, handed, source0, dest0>>
  /\ LET filename == commandFiles[idx]
         after == ExportTurn([source |-> source, dest |-> dest], filename, opts.force)
     IN  \E fault \in {"none", "read", "write"} :
           CASE fault = "read" ->
                  /\ pc' = "rules"
                  /\ result' = Catch(result, "read failed")
                  /\ Threw("commands", "read failed")
                  /\ UNCHANGED <<source, dest, idx, failedWrite>>
             [] fault = "write" ->
                  /\ pc' = "rules"
                  /\ result' = Catch(result, "write failed")
                  /\ Threw("commands", "write failed")
                  /\ failedWrite' = idx
                  /\ UNCHANGED <<source, dest, idx>>
             [] fault = "none" ->
                  /\ source' = after.source
                  /\ dest' = after.dest
                  /\ UNCHANGED <<thrown, failedWrite>>
                  /\ IF idx < Len(commandFiles)
                     THEN /\ idx' = idx + 1
                          /\ pc' = "export"
                          /\ UNCHANGED result
                     ELSE /\ pc' = "rules"
                          /\ result' = [result EXCEPT
                                          !.commandsSynced = Len(commandFiles)]
                          /\ UNCHANGED idx

\* Step 4: export docs/rules
RulesPass ==
  /\ pc = "rules"
  /\ UNCHANGED <<gen, fmt, fname, scaffold>>
  /\ pc' = "status"
  /\ UNCHANGED <<opts, source, dest, commandFiles, idx, detected, failedWrite,
                 source0, dest0>>
  /\ IF ~PassEnabled(opts.skipDocs, opts.docTargets)
     THEN UNCHANGED <<result, attempts, handed, thrown>>
     ELSE /\ Entered("rules")
          /\ \E outcome \in {"nosource", "ok", "throw"} :
               CASE outcome = "nosource" ->
                      /\ handed' = [handed EXCEPT !.rules = NoSource]
                      /\ UNCHANGED <<result, thrown>>
                 [] outcome = "ok" ->
                      /\ handed' = [handed EXCEPT !.rules = Call(opts.docTargets)]
                      /\ UNCHANGED <<result, thrown>>
                 [] outcome = "throw" ->
                      /\ handed' = [handed EXCEPT !.rules = Call(opts.docTargets)]
                      /\ result' = Catch(result, "rules failed")
                      /\ Threw("rules", "rules failed")

\* state.state === 'outdated' && state.details.daysBehind
ReportsOutdated(state) ==
  state.state = "outdated" /\ state.hasDays /\ state.daysBehind # 0

\* Step 5: check docs status, and return result
StatusPass ==
  /\ pc = "status"
  /\ UNCHANGED <<gen, fmt, fname, scaffold>>
  /\ pc' = "done"
  /\ UNCHANGED <<opts, source, dest, commandFiles, idx, handed, failedWrite,
                 source0, dest0>>
  /\ IF opts.skipDocs
     THEN UNCHANGED <<result, detected, attempts, thrown>>
     ELSE /\ Entered("status")
          /\ \/ /\ result' = Catch(result, "detect failed")
                /\ Threw("status", "detect failed")
                /\ UNCHANGED detected
             \/ \E state \in Detections :
                  /\ detected' = state
                  /\ result' = [result EXCEPT !.docsUpdated = ~ReportsOutdated(state)]
                  /\ UNCHANGED thrown

Next == AgentsPass \/ SkillsPass \/ CommandsPass \/ ExportFile \/ RulesPass \/ StatusPass

Spec == Init /\ [][Next]_vars
(***************************************************************************)
(* Properties of QuickSyncService.run.                                     *)
(***************************************************************************)
Done == pc = "done"

\* the exceptions thrown inside pass p
ThrownIn(p) == {i \in 1..Len(thrown) : thrown[i].pass = p}

\* the number of .md files of the source directory at the start of the run
MdCount == Cardinality({i \in 1..Len(source0.names) : EndsWithMd(source0.names[i])})

\* a pass is disabled by its skip flag or by an explicitly empty target list
Disabled(skip, targets) == skip \/ (targets.defined /\ targets.list = <<>>)

SkipFlag(p) ==
  CASE p = "agents" -> opts.skipAgents
    [] p = "skills" -> opts.skipSkills
    [] p = "commands" -> opts.skipCommands
    [] OTHER -> opts.skipDocs

TargetsOf(p) ==
  CASE p = "agents" -> opts.agentTargets
    [] p = "skills" -> opts.skillTargets
    [] p = "commands" -> opts.commandTargets
    [] OTHER -> opts.docTargets

\* the status check has no target list: only skipDocs disables it
IsOn(p) == IF p = "status" THEN ~opts.skipDocs ELSE ~Disabled(SkipFlag(p), TargetsOf(p))

\* C1: an exception thrown inside a pass is caught and its message appended to
\* result.errors, in order; whatever passes fail, run reaches its return with
\* every enabled pass attempted exactly once (and no disabled pass attempted).
PassFailuresAreIsolated ==
  /\ result.errors = [i \in 1..Len(thrown) |-> thrown[i].msg]
  /\ \A p \in Passes : attempts[p] <= 1
  /\ Done => \A p \in Passes : attempts[p] = IF IsOn(p) THEN 1 ELSE 0

\* all five passes threw, and run still returned
AllPassesFailed ==
  /\ Done
  /\ [i \in 1..Len(thrown) |-> thrown[i].pass]
       = <<"agents", "skills", "commands", "rules", "status">>
  /\ Len(result.errors) = 5

\* C2: a failure while writing one command file does not abort the remaining
\* files: every other file is still written, and one error is reported.
WriteFailureSparesOtherFiles ==
  (Done /\ failedWrite # 0) =>
    /\ \A j \in 1..Len(commandFiles) :
         j # failedWrite =>
           /\ HasFile(dest.antigravity, toAntigravityFilename(commandFiles[j]))
           /\ FileContent(dest.antigravity, toAntigravityFilename(commandFiles[j]))
                = toAntigravityWorkflowContent(FileContent(source0, commandFiles[j]))
    /\ Cardinality(ThrownIn("commands")) = 1

\* C3: whenever the commands pass is attempted, the source directory exists and
\* its listing was read, commandsSynced is the number of .md files found, also
\* when a write inside the pass throws.
CommandsSyncedCountsSourceFiles ==
  (/\ Done
   /\ attempts["commands"] = 1
   /\ source0.exists
   /\ \A i \in ThrownIn("commands") : thrown[i].msg # "readdir failed") =>
    result.commandsSynced = MdCount

\* a target list holds a key that is not registered in the commands presets
HasUnknownTarget(targets) ==
  targets.defined /\ \E i \in 1..Len(targets.list) : ~IsRegistered(targets.list[i])

\* C4: a commands target list with an unregistered key is rejected with an
\* error before anything is written, also for the known keys of the list.
UnknownTargetsAreRejected ==
  (Done /\ attempts["commands"] = 1 /\ source0.exists
        /\ HasUnknownTarget(opts.commandTargets)) =>
    /\ dest = dest0
    /\ ThrownIn("commands") # {}

\* the targets the commands pass synced to
CommandsSyncedTo ==
  Range(handed["commands"].targets)
    \cup (IF handed["commands"].antigravity THEN {"antigravity"} ELSE {})

DryRunLeavesDestinations ==
  /\ opts.dryRun => dest = dest0
  /\ (Done /\ attempts["commands"] = 1 /\ source0.exists /\ ThrownIn("commands") = {}) =>
       result.commandsSynced = MdCount

\* a dry run over MaxFiles command files that selected antigravity
DryRunCounted ==
  /\ Done
  /\ opts.dryRun
  /\ handed["commands"].antigravity
  /\ MdCount = MaxFiles
  /\ result.commandsSynced = MaxFiles
  /\ dest = NoDests

InitMcpOnlyName ==
  <<"i", "n", "i", "t", "-", "m", "c", "p", "-", "o", "n", "l", "y", ".", "m", "d">>

\* the template's markdown, shortened: a heading, a blank line, a paragraph
InitMcpOnlyContent == <<"#", " ", "I", "n", "i", "t", NL, NL, "U", "s", "e", ".">>

PREDEFINED_COMMANDS == << [filename |-> InitMcpOnlyName, content |-> InitMcpOnlyContent] >>

\* String.prototype.trimEnd
TrimEnd(s) ==
  LET kept == {i \in 1..Len(s) : ~IsWs(s[i])}
  IN  IF kept = {} THEN <<>> ELSE SubSeq(s, 1, SetMax(kept))

\* cmd.content.trimEnd() + '\n'
SeedContent(cmd) == TrimEnd(cmd.content) \o <<NL>>

\* the commands directories generateCommands starts from
SeedDirs ==
  {EmptyDir,
   DirWith(<<>>, <<>>),
   DirWith(<<CommandName(1)>>, <<SourceContent(1)>>),
   DirWith(<<InitMcpOnlyName>>, <<StaleContent>>),
   DirWith(<<CommandName(1), InitMcpOnlyName>>, <<SourceContent(1), SeedContent(PREDEFINED_COMMANDS[1])>>)}

\* run is not running
RunOff ==
  /\ pc = "off"
  /\ opts = [skipAgents |-> TRUE, skipSkills |-> TRUE, skipCommands |-> TRUE,
             skipDocs |-> TRUE, force |-> FALSE, dryRun |-> FALSE,
             agentTargets |-> Undefined, skillTargets |-> Undefined,
             commandTargets |-> Undefined, docTargets |-> Undefined]
  /\ result = [agentsSynced |-> 0, skillsExported |-> 0, commandsSynced |-> 0,
               docsUpdated |-> FALSE, errors |-> <<>>]
  /\ source = EmptyDir
  /\ dest = NoDests
  /\ commandFiles = <<>>
  /\ idx = 0
  /\ detected = NotDetected
  /\ attempts = [p \in Passes |-> 0]
  /\ handed = [p \in Passes |-> NotRun]
  /\ thrown = <<>>
  /\ failedWrite = 0
  /\ source0 = source
  /\ dest0 = dest

InitGen ==
  /\ RunOff
  /\ fmt = FmtOff
  /\ fname = NameOff
  /\ scaffold = ScaffoldOff
  /\ \E d \in SeedDirs :
       gen = [pc |-> "idle", dir |-> d, before |-> d, force |-> FALSE, i |-> 0,
              generated |-> <<>>, skipped |-> <<>>, calls |-> 0]

\* a seeding that never overwrites, whatever force is
GenSkipsWheneverExists(exists, force) == exists

\* if (exists && !force) { skipped.push(cmd.filename); continue; }
GenSkips(exists, force) == exists /\ ~force

\* generateCommands(outputDir, {force}) up to its loop
GenCall ==
  /\ gen.pc \in {"idle", "returned", "threw"}
  /\ gen.calls < MaxCalls
  /\ \E force \in BOOLEAN :
       gen' = [pc |-> "loop", dir |-> EnsureDir(gen.dir), before |-> gen.dir,
               force |-> force, i |-> 1, generated |-> <<>>, skipped |-> <<>>,
               calls |-> gen.calls + 1]
  /\ UNCHANGED <<runVars, fmt, fname, scaffold>>

\* one turn of the loop over PREDEFINED_COMMANDS; the last one returns
GenStep ==
  /\ gen.pc = "loop"
  /\ UNCHANGED <<runVars, fmt, fname, scaffold>>
  /\ LET cmd == PREDEFINED_COMMANDS[gen.i]
         exists == HasFile(gen.dir, cmd.filename)
         after == IF gen.i < Len(PREDEFINED_COMMANDS) THEN "loop" ELSE "returned"
     IN  IF GenSkips(exists, gen.force)
         THEN gen' = [gen EXCEPT !.skipped = Append(@, cmd.filename),
                                 !.i = @ + 1, !.pc = after]
         ELSE \/ gen' = [gen EXCEPT !.pc = "threw"]
              \/ gen' = [gen EXCEPT !.dir = WriteFile(@, cmd.filename, SeedContent(cmd)),
                                    !.generated = Append(@, cmd.filename),
                                    !.i = @ + 1, !.pc = after]

\* between two calls the user rewrites a seeded file
UserEdits ==
  /\ gen.pc \in {"returned", "threw"}
  /\ HasFile(gen.dir, InitMcpOnlyName)
  /\ FileContent(gen.dir, InitMcpOnlyName) # StaleContent
  /\ gen' = [gen EXCEPT !.dir = WriteFile(@, InitMcpOnlyName, StaleContent),
                         !.pc = "idle"]
  /\ UNCHANGED <<runVars, fmt, fname, scaffold>>

\* fs.unlink of one file of a directory
RemoveFile(dir, f) ==
  LET keep == {i \in 1..Len(dir.names) : dir.names[i] # f}
      at(k) == SetMin({i \in keep : Cardinality({j \in keep : j <= i}) = k})
  IN  [dir EXCEPT !.names = [k \in 1..Cardinality(keep) |-> dir.names[at(k)]],
                  !.data = [k \in 1..Cardinality(keep) |-> dir.data[at(k)]]]

\* between two calls the user deletes a seeded file
UserDeletes ==
  /\ gen.pc \in {"returned", "threw"}
  /\ HasFile(gen.dir, InitMcpOnlyName)
  /\ gen' = [gen EXCEPT !.dir = RemoveFile(@, InitMcpOnlyName), !.pc = "idle"]
  /\ UNCHANGED <<runVars, fmt, fname, scaffold>>

NextGen == GenCall \/ GenStep \/ UserEdits \/ UserDeletes

SpecGen == InitGen /\ [][NextGen]_vars

\* C7: when generateCommands returns, every predefined command whose file
\* existed at the call is, with force=false, listed in skipped and untouched,
\* and with force=true overwritten with the template and listed in generated;
\* a file that was absent is written and listed in generated; so a call with
\* force=false over existing files returns generated=[] and skipped = all of them.
SeedingRespectsExistingFiles ==
  gen.pc = "returned" =>
    /\ \A k \in 1..Len(PREDEFINED_COMMANDS) :
         LET cmd == PREDEFINED_COMMANDS[k]
             existed == HasFile(gen.before, cmd.filename)
         IN  /\ HasFile(gen.dir, cmd.filename)
             /\ IF existed /\ ~gen.force
                THEN /\ cmd.filename \in Range(gen.skipped)
                     /\ cmd.filename \notin Range(gen.generated)
                     /\ FileContent(gen.dir, cmd.filename)
                          = FileContent(gen.before, cmd.filename)
                ELSE /\ cmd.filename \in Range(gen.generated)
                     /\ cmd.filename \notin Range(gen.skipped)
                     /\ FileContent(gen.dir, cmd.filename) = SeedContent(cmd)
    /\ (/\ ~gen.force
        /\ \A k \in 1..Len(PREDEFINED_COMMANDS) :
             HasFile(gen.before, PREDEFINED_COMMANDS[k].filename)) =>
         /\ gen.generated = <<>>
         /\ gen.skipped = [k \in 1..Len(PREDEFINED_COMMANDS) |->
                             PREDEFINED_COMMANDS[k].filename]

\* a later call without force skipped a file the user had rewritten
EditedSeedSkipped ==
  /\ gen.pc = "returned"
  /\ gen.calls >= 2
  /\ ~gen.force
  /\ gen.generated = <<>>
  /\ gen.skipped = <<InitMcpOnlyName>>
  /\ FileContent(gen.dir, InitMcpOnlyName) = StaleContent
(***************************************************************************)
(* The content transformer on bounded inputs: applied once, and again to   *)
(* its own output.                                                         *)
(***************************************************************************)
\* the lines the inputs are made of
InputLines ==
  {Dashes,
   <<"#", " ", "T">>,
   <<"x", " ", " ", "y">>,
   <<"1", ".", " ", "x">>,
   <<"k", ":", " ", "v">>,
   <<>>}

\* lines.join('\n')
RECURSIVE JoinLines(_)
JoinLines(lines) ==
  IF lines = <<>> THEN <<>>
  ELSE IF Len(lines) = 1 THEN lines[1]
       ELSE lines[1] \o <<NL>> \o JoinLines(Tail(lines))

\* a line of n letters
LetterLine(n) == [i \in 1..n |-> "a"]

\* lines at and beyond DESCRIPTION_MAX_LENGTH: plain, as a heading, and with
\* whitespace that cleaning collapses
LongLines ==
  {LetterLine(DESCRIPTION_MAX_LENGTH),
   LetterLine(DESCRIPTION_MAX_LENGTH + 1),
   <<"#", " ">> \o LetterLine(DESCRIPTION_MAX_LENGTH + 1),
   <<"b", " ", " ">> \o LetterLine(DESCRIPTION_MAX_LENGTH - 2),
   <<"b", " ", " ">> \o LetterLine(DESCRIPTION_MAX_LENGTH - 1)}

LongTexts ==
  {<<l>> : l \in LongLines} \cup {<<l, m>> : l \in LongLines, m \in InputLines}

InputTexts == UNION {[1..n -> InputLines] : n \in 1..MaxLines} \cup LongTexts

InitFmt ==
  /\ RunOff
  /\ gen = GenOff
  /\ fname = NameOff
  /\ scaffold = ScaffoldOff
  /\ \E lines \in InputTexts :
       fmt = [pc |-> "input", lines |-> lines, input |-> JoinLines(lines),
              description |-> <<>>, body |-> <<>>, once |-> <<>>, twice |-> <<>>]

\* toAntigravityWorkflowContent(content)
Transform ==
  /\ fmt.pc = "input"
  /\ fmt' = [fmt EXCEPT !.pc = "once",
                        !.description = WorkflowDescription(fmt.input),
                        !.body = WorkflowBody(fmt.input),
                        !.once = toAntigravityWorkflowContent(fmt.input)]
  /\ UNCHANGED <<runVars, gen, fname, scaffold>>

\* toAntigravityWorkflowContent applied to its own output
Retransform ==
  /\ fmt.pc = "once"
  /\ fmt' = [fmt EXCEPT !.pc = "twice",
                        !.twice = toAntigravityWorkflowContent(fmt.once)]
  /\ UNCHANGED <<runVars, gen, fname, scaffold>>

NextFmt == Transform \/ Retransform

SpecFmt == InitFmt /\ [][NextFmt]_vars

\* C9: toAntigravityWorkflowContent applied to its own output returns that
\* output, up to whitespace: one front-matter block, the same description,
\* the body not wrapped again.
TransformIsIdempotent ==
  fmt.pc = "twice" => CollapseWs(fmt.twice) = CollapseWs(fmt.once)

\* the index of the line that closes a leading front-matter block, 0 if none
ClosingLine(lines) ==
  IF Len(lines) >= 2 /\ lines[1] = Dashes /\ \E k \in 2..Len(lines) : lines[k] = Dashes
  THEN SetMin({k \in 2..Len(lines) : lines[k] = Dashes})
  ELSE 0

\* C10: an input that does not start with a '---' line loses no text of its
\* body, also when '---' lines occur later; of an input that starts with a
\* front-matter block only that block is removed.
OnlyLeadingBlockIsStripped ==
  fmt.pc # "input" =>
    /\ fmt.lines[1] # Dashes => fmt.body = Trim(fmt.input)
    /\ ClosingLine(fmt.lines) # 0 =>
         fmt.body = Trim(JoinLines(SubSeq(fmt.lines, ClosingLine(fmt.lines) + 1,
                                          Len(fmt.lines))))

\* the input with a leading front-matter block removed, trimmed
LeadingBlockRemoved(lines) ==
  IF ClosingLine(lines) # 0
  THEN Trim(JoinLines(SubSeq(lines, ClosingLine(lines) + 1, Len(lines))))
  ELSE Trim(JoinLines(lines))

\* C11: the description in the emitted front-matter is derived from the body
\* that remains after the leading front-matter block is removed: its first
\* first-level heading, else its first non-empty line, whitespace collapsed;
\* never the front-matter delimiter or the front-matter's own content.
DescriptionComesFromBody ==
  fmt.pc # "input" /\ LeadingBlockRemoved(fmt.lines) # <<>> =>
    fmt.description = deriveDescription(LeadingBlockRemoved(fmt.lines))

\* C12: the emitted description never exceeds 250 characters; a cleaned
\* heading or first line longer than 250 is cut to its first 247 characters
\* followed by '...', a shorter one is emitted unchanged.
DescriptionIsTruncated ==
  fmt.pc # "input" =>
    LET cleaned == CleanedFirstLine(fmt.input)
    IN  /\ Len(fmt.description) <= 250
        /\ Len(cleaned) > 250 =>
              fmt.description = SubSeq(cleaned, 1, 247) \o <<".", ".", ".">>
        /\ Len(cleaned) <= 250 => fmt.description = cleaned

\* a cleaned line of more than 250 characters was cut to exactly 250
LongDescriptionCut ==
  /\ fmt.pc # "input"
  /\ Len(CleanedFirstLine(fmt.input)) > 250
  /\ Len(fmt.description) = 250
  /\ SubSeq(fmt.description, 248, 250) = <<".", ".", ".">>

(***************************************************************************)
(* toAntigravityFilename on bounded kebab-case names: applied once, and    *)
(* again to its own output.                                                *)
(***************************************************************************)
\* the longest name, in segments
MaxSegments == 3

\* the segments names are made of, each with its lowercase form
Segments ==
  {[raw |-> <<"a">>, lower |-> <<"a">>],
   [raw |-> <<"b", "1">>, lower |-> <<"b", "1">>],
   [raw |-> <<"m", "d">>, lower |-> <<"m", "d">>],
   [raw |-> <<"A", "b">>, lower |-> <<"a", "b">>]}

\* the spellings of the extension /\.md$/i accepts
Extensions == {<<".", "m", "d">>, <<".", "M", "D">>}

\* parts.join(sep)
RECURSIVE JoinWith(_, _)
JoinWith(parts, sep) ==
  IF parts = <<>> THEN <<>>
  ELSE IF Len(parts) = 1 THEN parts[1]
       ELSE parts[1] \o <<sep>> \o JoinWith(Tail(parts), sep)

NameInputs == UNION {[1..n -> Segments] : n \in 1..MaxSegments}

InitName ==
  /\ RunOff
  /\ gen = GenOff
  /\ fmt = FmtOff
  /\ scaffold = ScaffoldOff
  /\ \E segs \in NameInputs, ext \in Extensions :
       fname = [pc |-> "input", segs |-> segs,
                input |-> JoinWith([i \in 1..Len(segs) |-> segs[i].raw], "-") \o ext,
                out |-> <<>>, again |-> <<>>]

\* toAntigravityFilename(filename)
Convert ==
  /\ fname.pc = "input"
  /\ fname' = [fname EXCEPT !.pc = "once", !.out = toAntigravityFilename(fname.input)]
  /\ UNCHANGED <<runVars, gen, fmt, scaffold>>

\* toAntigravityFilename applied to its own output
Reconvert ==
  /\ fname.pc = "once"
  /\ fname' = [fname EXCEPT !.pc = "twice", !.again = toAntigravityFilename(fname.out)]
  /\ UNCHANGED <<runVars, gen, fmt, scaffold>>

NextName == Convert \/ Reconvert

SpecName == InitName /\ [][NextName]_vars

\* C13: a kebab-case name x-y-z.md becomes x_y_z.md, every '-' replaced by
\* '_', every letter lowercase, one '.md' extension; converting the result
\* again returns it unchanged.
KebabBecomesSnake ==
  /\ fname.pc \in {"once", "twice"} =>
        fname.out = JoinWith([i \in 1..Len(fname.segs) |-> fname.segs[i].lower], "_")
                      \o <<".", "m", "d">>
  /\ fname.pc = "twice" => fname.again = fname.out

\* a three-segment name with an uppercase letter was converted twice
LongNameConvertedTwice ==
  /\ fname.pc = "twice"
  /\ Len(fname.segs) >= 3
  /\ \E i \in 1..Len(fname.segs) : fname.segs[i].raw # fname.segs[i].lower
  /\ fname.again = fname.out

(***************************************************************************)
(* The order of the passes of QuickSyncService.run.                        *)
(***************************************************************************)
\* the position of a pass in run; the export loop belongs to the commands pass
PassOf(p) ==
  CASE p = "agents" -> 1
    [] p = "skills" -> 2
    [] p \in {"commands", "export"} -> 3
    [] p = "rules" -> 4
    [] p = "status" -> 5
    [] OTHER -> 6

PassName(p) == IF p = "export" THEN "commands" ELSE p

\* the names whose file differs between directory d and directory e
ChangedFiles(d, e) ==
  {f \in Range(d.names) \cup Range(e.names) :
     \/ HasFile(d, f) # HasFile(e, f)
     \/ HasFile(d, f) /\ HasFile(e, f) /\ FileContent(d, f) # FileContent(e, f)}

\* C14: the passes run one after another in the order agents, skills,
\* commands, docs: a step belongs to one pass, touches only that pass's
\* history and only the commands pass writes destinations; the antigravity
\* export handles one file per step, in listing order, so at most one
\* destination file is written at a time.
PassesRunOneAtATime ==
  [][/\ PassOf(pc') \in {PassOf(pc), PassOf(pc) + 1}
     /\ PassOf(pc') = PassOf(pc) => pc' = "export"
     /\ \A p \in Passes :
          (attempts'[p] # attempts[p] \/ handed'[p] # handed[p]) => p = PassName(pc)
     /\ dest' # dest => pc \in {"commands", "export"}
     /\ pc = "export" =>
          /\ \A k \in DOMAIN dest \ {"antigravity"} : dest'[k] = dest[k]
          /\ ChangedFiles(dest.antigravity, dest'.antigravity)
               \subseteq {toAntigravityFilename(commandFiles[idx])}
          /\ pc' = "export" => idx' = idx + 1]_vars

\* every pass ran, the export wrote at least two files, one per step
AllPassesAndTwoExports ==
  /\ pc = "done"
  /\ \A p \in Passes : attempts[p] > 0
  /\ idx >= 2
  /\ thrown = <<>>
  /\ Cardinality(ChangedFiles(dest0.antigravity, dest.antigravity)) >= 2

\* C15: with skipDocs unset and a detection that succeeded, docsUpdated is
\* false whenever the detector answers 'outdated', whatever daysBehind is
\* (absent and zero included), and true when it answers 'fresh'; with
\* skipDocs set the detector is not invoked and docsUpdated stays false.
DocsUpdatedFollowsDetector ==
  pc = "done" =>
    /\ ~opts.skipDocs /\ detected.state = "outdated" => ~result.docsUpdated
    /\ ~opts.skipDocs /\ detected.state = "fresh" => result.docsUpdated
    /\ opts.skipDocs => detected = NotDetected /\ ~result.docsUpdated

\* C16: a run never changes .context/commands: at every point of every run
\* the source directory holds the files and contents it started with; what
\* the run creates or writes lies under the destinations of the selected
\* targets.
SourceIsNeverMutated ==
  /\ source = source0
  /\ \A k \in DOMAIN dest :
       k \notin Range(TargetIds(opts.commandTargets)) => dest[k] = dest0[k]

\* a forced run exported a source of several files and left it as it was
SourceIntactAfterExport ==
  /\ pc = "done"
  /\ opts.force
  /\ Len(source0.names) >= 2
  /\ ChangedFiles(dest0.antigravity, dest.antigravity) # {}
  /\ source = source0

(***************************************************************************)
(* InitService.run: resolveScaffoldType, ensurePaths, the overwrite        *)
(* prompts, the repository scan and generateScaffolds.                     *)
(***************************************************************************)
\* the largest count a generator reports
MaxGenerated == 2

\* the type argument of run: absent, the three scaffold types, one of them in
\* capitals and a word that is no scaffold type
ScaffoldTypes == {"", "docs", "agents", "both", "DOCS", "skills"}

\* String.prototype.toLowerCase on the types the model uses
LowerType(t) == IF t = "DOCS" THEN "docs" ELSE t

\* const allowed = ['docs', 'agents', 'both']
AllowedTypes == <<"docs", "agents", "both">>

\* resolveScaffoldType(type, rawOptions, t): the type, or the error it throws
resolveScaffoldType(type, rawOptions) ==
  LET normalized == LowerType(IF type = "" THEN "both" ELSE type)
  IN  IF normalized \notin Range(AllowedTypes)
      THEN [threw |-> TRUE, value |-> "errors.init.invalidType"]
      ELSE IF rawOptions.docsOnly THEN [threw |-> FALSE, value |-> "docs"]
      ELSE IF rawOptions.agentsOnly THEN [threw |-> FALSE, value |-> "agents"]
      ELSE [threw |-> FALSE, value |-> normalized]

NoSkips == [skipDocs |-> FALSE, skipAgents |-> FALSE, skipSkills |-> FALSE]

NoCounts == [docsGenerated |-> 0, agentsGenerated |-> 0, skillsGenerated |-> 0,
             commandsGenerated |-> 0]

InitScaffold ==
  /\ RunOff
  /\ gen = GenOff
  /\ fmt = FmtOff
  /\ fname = NameOff
  /\ \E type \in ScaffoldTypes, docsOnly \in BOOLEAN, agentsOnly \in BOOLEAN :
       scaffold = [pc |-> "start", type |-> type,
                   rawOptions |-> [docsOnly |-> docsOnly, agentsOnly |-> agentsOnly],
                   scaffoldDocs |-> FALSE, scaffoldAgents |-> FALSE,
                   scaffoldSkills |-> FALSE, skipOverwrites |-> NoSkips,
                   outputDirExists |-> FALSE, filtered |-> FALSE, currentStep |-> 1,
                   counts |-> NoCounts, generatorCalls |-> 0,
                   skillsThrew |-> FALSE, commandsRan |-> FALSE,
                   commandsThrew |-> FALSE, error |-> "", summary |-> NoCounts]

\* a catch of the skills step that lets the failure out of generateScaffolds
SkillsRethrow(s) == [s EXCEPT !.pc = "threw", !.error = "skills failed"]

\* catch { } of the skills step: nothing is recorded, the step ends as usual
SkillsCatch(s) == [s EXCEPT !.pc = "commands", !.currentStep = @ + 1]

\* catch { } of the commands step, and the return of generateScaffolds
CommandsCatch(s) == [s EXCEPT !.pc = "returned", !.summary = s.counts]

\* an exception that no try block of run or generateScaffolds holds
Propagate(s, msg) == [s EXCEPT !.pc = "threw", !.error = msg]

\* run, up to the test for an empty selection
ResolveType ==
  /\ scaffold.pc = "start"
  /\ UNCHANGED <<runVars, gen, fmt, fname>>
  /\ LET resolvedType == resolveScaffoldType(scaffold.type, scaffold.rawOptions)
         docs == resolvedType.value \in {"docs", "both"}
         agents == resolvedType.value \in {"agents", "both"}
     IN  scaffold' =
           IF resolvedType.threw THEN Propagate(scaffold, resolvedType.value)
           ELSE [scaffold EXCEPT !.scaffoldDocs = docs,
                                 !.scaffoldAgents = agents,
                                 !.scaffoldSkills = resolvedType.value = "both",
                                 !.pc = IF ~docs /\ ~agents THEN "warned" ELSE "paths"]

\* ensurePaths(options)
EnsurePaths ==
  /\ scaffold.pc = "paths"
  /\ UNCHANGED <<runVars, gen, fmt, fname>>
  /\ \E outcome \in {"missing", "mkdir failed", "ok"} :
       scaffold' =
         CASE outcome = "missing" -> Propagate(scaffold, "errors.common.repoMissing")
           [] outcome = "mkdir failed" -> Propagate(scaffold, "mkdir failed")
           [] outcome = "ok" -> [scaffold EXCEPT !.pc = "confirm", !.outputDirExists = TRUE]

\* confirmOverwriteIfNeeded(options): a prompt only for a selected scaffold
\* whose directory has content; a declined prompt sets the skip flag
ConfirmOverwrite ==
  /\ scaffold.pc = "confirm"
  /\ UNCHANGED <<runVars, gen, fmt, fname>>
  /\ \E declinedDocs \in BOOLEAN, declinedAgents \in BOOLEAN, declinedSkills \in BOOLEAN :
       /\ declinedDocs => scaffold.scaffoldDocs
       /\ declinedAgents => scaffold.scaffoldAgents
       /\ declinedSkills => scaffold.scaffoldSkills
       /\ scaffold' = [scaffold EXCEPT !.pc = "map",
                                       !.skipOverwrites = [skipDocs |-> declinedDocs,
                                                           skipAgents |-> declinedAgents,
                                                           skipSkills |-> declinedSkills]]

\* fileMapper.mapRepository(...)
MapRepository ==
  /\ scaffold.pc = "map"
  /\ UNCHANGED <<runVars, gen, fmt, fname>>
  /\ \/ scaffold' = Propagate(scaffold, "scan failed")
     \/ scaffold' = [scaffold EXCEPT !.pc = "stack"]

\* generateScaffolds: the project classification inside its own try block
DetectStack ==
  /\ scaffold.pc = "stack"
  /\ UNCHANGED <<runVars, gen, fmt, fname>>
  /\ \E classified \in BOOLEAN :
       scaffold' = [scaffold EXCEPT !.pc = "docs", !.filtered = classified]

\* generateScaffolds: documentation, with no try block around the generator
DocsStep ==
  /\ scaffold.pc = "docs"
  /\ UNCHANGED <<runVars, gen, fmt, fname>>
  /\ IF scaffold.scaffoldDocs /\ ~scaffold.skipOverwrites.skipDocs
     THEN \/ scaffold' = Propagate([scaffold EXCEPT !.generatorCalls = @ + 1],
                                   "docs failed")
          \/ \E n \in 0..MaxGenerated :
               scaffold' = [scaffold EXCEPT !.pc = "agents",
                                           !.generatorCalls = @ + 1,
                                           !.counts.docsGenerated = n,
                                           !.currentStep = @ + 1]
     ELSE scaffold' = [scaffold EXCEPT !.pc = "agents"]

\* generateScaffolds: agent prompts, with no try block around the generator
AgentsStep ==
  /\ scaffold.pc = "agents"
  /\ UNCHANGED <<runVars, gen, fmt, fname>>
  /\ IF scaffold.scaffoldAgents /\ ~scaffold.skipOverwrites.skipAgents
     THEN \/ scaffold' = Propagate([scaffold EXCEPT !.generatorCalls = @ + 1],
                                   "agents failed")
          \/ \E n \in 0..MaxGenerated :
               scaffold' = [scaffold EXCEPT !.pc = "skills",
                                           !.generatorCalls = @ + 1,
                                           !.counts.agentsGenerated = n,
                                           !.currentStep = @ + 1]
     ELSE scaffold' = [scaffold EXCEPT !.pc = "skills"]

\* generateScaffolds: skills, inside a try block
SkillsStep ==
  /\ scaffold.pc = "skills"
  /\ UNCHANGED <<runVars, gen, fmt, fname>>
  /\ IF scaffold.scaffoldSkills /\ ~scaffold.skipOverwrites.skipSkills
     THEN \/ scaffold' = SkillsCatch([scaffold EXCEPT !.generatorCalls = @ + 1,
                                                      !.skillsThrew = TRUE])
          \/ \E n \in 0..MaxGenerated :
               scaffold' = [scaffold EXCEPT !.pc = "commands",
                                           !.generatorCalls = @ + 1,
                                           !.counts.skillsGenerated = n,
                                           !.currentStep = @ + 1]
     ELSE scaffold' = [scaffold EXCEPT !.pc = "commands"]

\* generateScaffolds: generateCommands(outputDir, {force: false}) inside a try
\* block, and the return of the counts to run, which displays them
CommandsStep ==
  /\ scaffold.pc = "commands"
  /\ UNCHANGED <<runVars, gen, fmt, fname>>
  /\ IF scaffold.scaffoldDocs \/ scaffold.scaffoldAgents
     THEN \/ scaffold' = CommandsCatch([scaffold EXCEPT !.generatorCalls = @ + 1,
                                                        !.commandsRan = TRUE,
                                                        !.commandsThrew = TRUE])
          \/ \E n \in 0..Len(PREDEFINED_COMMANDS) :
               scaffold' = [scaffold EXCEPT !.pc = "returned",
                                           !.generatorCalls = @ + 1,
                                           !.commandsRan = TRUE,
                                           !.counts.commandsGenerated = n,
                                           !.summary = [scaffold.counts EXCEPT
                                                          !.commandsGenerated = n]]
     ELSE scaffold' = [scaffold EXCEPT !.pc = "returned", !.summary = scaffold.counts]

NextScaffold ==
  \/ ResolveType
  \/ EnsurePaths
  \/ ConfirmOverwrite
  \/ MapRepository
  \/ DetectStack
  \/ DocsStep
  \/ AgentsStep
  \/ SkillsStep
  \/ CommandsStep

SpecScaffold == InitScaffold /\ [][NextScaffold]_vars

\* C17: a skill generation that throws leaves skillsGenerated at 0 and the
\* commands step still runs; a command generation that throws leaves
\* commandsGenerated at 0 and run still returns its summary; a type that is no
\* scaffold type makes resolveScaffoldType throw before any path is created
\* and before any generator is called.
OptionalFailuresAreAbsorbed ==
  /\ scaffold.skillsThrew =>
       /\ scaffold.counts.skillsGenerated = 0
       /\ scaffold.pc \in {"commands", "returned"}
       /\ scaffold.pc = "returned" =>
            scaffold.commandsRan /\ scaffold.summary.skillsGenerated = 0
  /\ scaffold.commandsThrew =>
       /\ scaffold.pc = "returned"
       /\ scaffold.summary = [scaffold.counts EXCEPT !.commandsGenerated = 0]
  /\ scaffold.type \notin {"", "docs", "agents", "both", "DOCS"} /\ scaffold.pc # "start" =>
       /\ scaffold.pc = "threw"
       /\ scaffold.error = "errors.init.invalidType"
       /\ ~scaffold.outputDirExists
       /\ scaffold.generatorCalls = 0

\* skills and commands both threw, and run returned the documentation and
\* agent counts with zeros for the two
BothOptionalStepsFailed ==
  /\ scaffold.pc = "returned"
  /\ scaffold.skillsThrew
  /\ scaffold.commandsThrew
  /\ scaffold.summary.docsGenerated > 0
  /\ scaffold.summary.skillsGenerated = 0
  /\ scaffold.summary.commandsGenerated = 0
====
